---- MODULE Spec2Model ----
(***************************************************************************)
(* The three commands of the UNL tool (src/main.rs): Load, Compare, Sign.  *)
(* Cryptography and encodings are symbolic: a signature is the triple      *)
(* <<"sig", key, bytes>>, a key is a name, and every text encoding of a    *)
(* value (base58, hex, base64, JSON) is the value under a tag, so that an  *)
(* encoding is never the identity and a decoder can refuse its input.      *)
(***************************************************************************)
EXTENDS Integers, Sequences, FiniteSets, TLC

\* Longest validator list of a blob, and longest list of candidate manifests.
MaxValidators == 2

----------------------------------------------------------------------------
(* Option and Result *)

None == [some |-> FALSE]
Some(v) == [some |-> TRUE, v |-> v]
Ok(v) == [ok |-> TRUE, val |-> v]
Err(e) == [ok |-> FALSE, err |-> e]

SeqsUpTo(S, n) == UNION {[1..k -> S] : k \in 0..n}
Range(s) == {s[i] : i \in DOMAIN s}

----------------------------------------------------------------------------
(* Codec layer (util): keys are names; "short" is a key blob whose length  *)
(* is not a public key's.                                                  *)

KeyLenOk(k) == k # "short"

\* the base58 text of a node public key, as decode_manifest stores it
base58_encode(k) == <<"b58", k>>

\* util::base58_decode(Version::NodePublic, text) -> Result<bytes>
base58_decode(s) ==
    IF s[1] = "b58" /\ KeyLenOk(s[2]) THEN Ok(s[2]) ELSE Err("DecodeError")

\* hex::encode(bytes).to_uppercase()
hex_encode_upper(k) == <<"HEX", k>>

\* util::base58_to_hex(text) -> lower-case hex text (no Result)
base58_to_hex(s) == <<"hex", s[2]>>

to_uppercase(h) == IF h[1] = "hex" THEN <<"HEX", h[2]>> ELSE h

\* util::hex_to_base58(hex) -> Result<text>
hex_to_base58(h) ==
    IF h[1] \in {"hex", "HEX"} THEN Ok(<<"b58", h[2]>>) ELSE Err("DecodeError")

\* BASE64_STANDARD.encode / decode
base64_encode(bytes) == [enc |-> "b64", bytes |-> bytes]
base64_decode(text) ==
    IF text.enc = "b64" THEN Ok(text.bytes) ELSE Err("base64")

----------------------------------------------------------------------------
(* Signature verifier (crypto) *)

SigOf(k, bytes) == <<"sig", k, bytes>>

\* crypto::sign(public_key_hex, private_key_hex, payload) -> signature
sign(public_key, private_key, payload) ==
    IF public_key[1] = "HEX" /\ private_key = <<"priv", public_key[2]>>
    THEN SigOf(public_key[2], payload)
    ELSE SigOf("nokey", payload)

\* crypto::verify_signature(public_key_hex, message, signature) -> bool
verify_signature(public_key, message, signature) ==
    /\ public_key[1] = "HEX"
    /\ signature = SigOf(public_key[2], message)

----------------------------------------------------------------------------
(* Manifest codec (manifest) *)

\* the bytes the two signatures of a manifest cover: every field but them
ManifestPayload(sequence, mk, sk, domain) == <<"manifest", sequence, mk, sk, domain>>

\* A manifest on the wire.  sigKey and msigKey are the keys the two
\* signatures were made with ("forged": with no key at all).
Wire(sequence, mk, sk, sigKey, msigKey, domain) ==
    [decodable |-> TRUE, sequence |-> sequence, mk |-> mk, sk |-> sk,
     sig |-> SigOf(sigKey, ManifestPayload(sequence, mk, sk, domain)),
     msig |-> SigOf(msigKey, ManifestPayload(sequence, mk, sk, domain)),
     domain |-> domain]

\* a wire string that is not a manifest
GarbageWire ==
    [decodable |-> FALSE, sequence |-> 0, mk |-> "", sk |-> "",
     sig |-> SigOf("", ManifestPayload(0, "", "", "")),
     msig |-> SigOf("", ManifestPayload(0, "", "", "")),
     domain |-> ""]

\* manifest::decode_manifest(wire) -> Result<Manifest>
decode_manifest(w) ==
    IF w.decodable
    THEN Ok([sequence |-> w.sequence,
             master_public_key |-> base58_encode(w.mk),
             signing_public_key |-> base58_encode(w.sk),
             signature |-> w.sig,
             master_signature |-> w.msig,
             domain |-> IF w.domain = "" THEN None ELSE Some(w.domain)])
    ELSE Err("MalformedManifest")

\* manifest::serialize_manifest_data(manifest) -> Result<bytes>
serialize_manifest_data(m) ==
    LET mk == base58_decode(m.master_public_key)
        sk == base58_decode(m.signing_public_key)
    IN  IF mk.ok /\ sk.ok
        THEN Ok(ManifestPayload(m.sequence, mk.val, sk.val,
                                IF m.domain.some THEN m.domain.v ELSE ""))
        ELSE Err("DecodeError")

unwrap_or_empty(d) == IF d.some THEN d.v ELSE ""

get_tick_or_cross(b) == IF b THEN "tick" ELSE "cross"

----------------------------------------------------------------------------
(* Time (time): the network epoch is a fixed offset from the Unix epoch *)

RippleEpoch == 946684800
SecondsPerDay == 86400

convert_to_unix_time(ripple) == ripple + RippleEpoch
convert_to_ripple_time(unix) == IF unix.some THEN unix.v - RippleEpoch ELSE 0
convert_to_human_time(unix) == <<"utc", unix>>

----------------------------------------------------------------------------
(* List document model (structs) and its decoding (util) *)

EmptyBlob == [sequence |-> 0, expiration |-> 0, validators |-> <<>>]

\* serde_json::to_string(&DecodedBlob): the JSON text of a blob, as bytes
BlobJson(blob) == [fmt |-> "json", blob |-> blob]

\* bytes that are not the JSON of a blob
GarbageBytes == [fmt |-> "text", blob |-> EmptyBlob]

EmptySig == SigOf("", GarbageBytes)

\* Unl::default()
UnlDefault ==
    [version |-> 0, public_key |-> <<"HEX", "">>, manifest |-> GarbageWire,
     blob |-> [enc |-> "empty", bytes |-> GarbageBytes], signature |-> EmptySig,
     blobs_v2 |-> <<>>]

\* util::decode_unl(unl) -> Result<DecodedUnl>: the blob and the manifest
\* are each decoded into an Option, and so is every validator's manifest.
decode_unl(u) ==
    LET bytes == base64_decode(u.blob)
        mf == decode_manifest(u.manifest)
        withManifest(v) ==
            LET dm == decode_manifest(v.manifest)
            IN  [validation_public_key |-> v.validation_public_key,
                 manifest |-> v.manifest,
                 decoded_manifest |-> IF dm.ok THEN Some(dm.val) ELSE None]
    IN  Ok([decoded_blob |->
               IF bytes.ok /\ bytes.val.fmt = "json"
               THEN Some([sequence |-> bytes.val.blob.sequence,
                          expiration |-> bytes.val.blob.expiration,
                          validators |->
                              [i \in DOMAIN bytes.val.blob.validators |->
                                  withManifest(bytes.val.blob.validators[i])]])
               ELSE None,
            decoded_manifest |-> IF mf.ok THEN Some(mf.val) ELSE None])

\* util::get_unl(url_or_file) -> Result<Unl>: the document at the source
get_unl(source) ==
    IF ~source.found THEN Err("SourceUnavailable")
    ELSE IF source.doc.version \notin {0, 1, 2} THEN Err("UnsupportedVersion")
    ELSE Ok(source.doc)

----------------------------------------------------------------------------
VARIABLES
    cmd,                    \* the command of this invocation
    arg,                    \* its argument (Option)
    pc,                     \* the statement main is at
    result,                 \* "running", "ok", "err" (main returned Err), "panic"
    errMsg,
    out,                    \* the lines printed so far
    unl, decoded_unl, decoded_blob, unl_decoded_manifest,
    manifest_signin_key, manifest_verification, unl_verification,
    vi,                     \* index of the validator the loop of Load is at
    stages,                 \* the stages Load has been through
    tamper,                 \* the field changed between two Loads (Option)
    prev,                   \* what the Load before the change reported
    \* Compare
    validators_manifests_1, validators_manifests_2, a_but_not_b, b_but_not_a,
    \* Sign
    sequence, expiration_in_days, secret_provider, keypair, sign_unl, manifests,
    validators, si,         \* si: index of the candidate manifest the loop is at
    now,                    \* Utc::now()
    disk_ok,                \* whether the output file can be written
    file,                   \* the output file (Option)
    persist_calls           \* calls of generate_unl_file so far

common == <<cmd, arg, pc, result, errMsg, out>>
loadLocals == <<unl, decoded_unl, decoded_blob, unl_decoded_manifest,
                manifest_signin_key, manifest_verification, unl_verification, vi>>
cmpLocals == <<validators_manifests_1, validators_manifests_2, a_but_not_b, b_but_not_a>>
signLocals == <<sequence, expiration_in_days, secret_provider, keypair, sign_unl,
                manifests, validators, si, now, disk_ok, file, persist_calls>>
vars == <<common, loadLocals, stages, tamper, prev, cmpLocals, signLocals>>

Unset == [some |-> FALSE]

LoadLocalsInit ==
    /\ unl = Unset /\ decoded_unl = Unset /\ decoded_blob = Unset
    /\ unl_decoded_manifest = Unset /\ manifest_signin_key = Unset
    /\ manifest_verification = Unset /\ unl_verification = Unset
    /\ vi = 1

ResetLoadLocals ==
    /\ unl' = Unset /\ decoded_unl' = Unset /\ decoded_blob' = Unset
    /\ unl_decoded_manifest' = Unset /\ manifest_signin_key' = Unset
    /\ manifest_verification' = Unset /\ unl_verification' = Unset
    /\ vi' = 1

\* main returns Err(msg)
Fail(msg) == result' = "err" /\ errMsg' = msg /\ pc' = "done"
\* .expect(msg) on a None
Panic(msg) == result' = "panic" /\ errMsg' = msg /\ pc' = "done"
Goto(l) == pc' = l /\ UNCHANGED <<result, errMsg>>

----------------------------------------------------------------------------
(* Commands::Load *)

\* let Some(url_or_file) = arg else { return Err }
LoadArg ==
    /\ cmd = "Load" /\ pc = "load_arg"
    /\ IF arg.some THEN Goto("load_get_unl") ELSE Fail("No URL or file was passed")
    /\ UNCHANGED <<cmd, arg, out, loadLocals, stages, tamper, prev, cmpLocals, signLocals>>

\* let unl = get_unl(url_or_file).await?;
LoadGetUnl ==
    /\ cmd = "Load" /\ pc = "load_get_unl"
    /\ LET r == get_unl(arg.v)
       IN  IF r.ok
           THEN /\ unl' = r.val
                /\ stages' = Append(stages, "Loaded")
                /\ Goto("load_decode_unl")
           ELSE /\ Fail(r.err)
                /\ UNCHANGED <<unl, stages>>
    /\ UNCHANGED <<cmd, arg, out, decoded_unl, decoded_blob, unl_decoded_manifest,
                   manifest_signin_key, manifest_verification, unl_verification,
                   vi, tamper, prev, cmpLocals, signLocals>>

\* let decoded_unl = decode_unl(unl.clone())?;
LoadDecodeUnl ==
    /\ cmd = "Load" /\ pc = "load_decode_unl"
    /\ LET r == decode_unl(unl)
       IN  IF r.ok
           THEN decoded_unl' = r.val /\ Goto("load_expect_blob")
           ELSE Fail(r.err) /\ UNCHANGED decoded_unl
    /\ UNCHANGED <<cmd, arg, out, unl, decoded_blob, unl_decoded_manifest,
                   manifest_signin_key, manifest_verification, unl_verification,
                   vi, stages, tamper, prev, cmpLocals, signLocals>>

\* let mut decoded_blob = decoded_unl.decoded_blob.expect("Could not decode blob");
LoadExpectBlob ==
    /\ cmd = "Load" /\ pc = "load_expect_blob"
    /\ IF decoded_unl.decoded_blob.some
       THEN /\ decoded_blob' = decoded_unl.decoded_blob.v
            /\ stages' = Append(stages, "BlobDecoded")
            /\ Goto("load_expect_manifest")
       ELSE /\ Panic("Could not decode blob")
            /\ UNCHANGED <<decoded_blob, stages>>
    /\ UNCHANGED <<cmd, arg, out, unl, decoded_unl, unl_decoded_manifest,
                   manifest_signin_key, manifest_verification, unl_verification,
                   vi, tamper, prev, cmpLocals, signLocals>>

\* the undecodable manifest is reported on a line of its own before the panic
M_LoadExpectManifest ==
    /\ cmd = "Load" /\ pc = "load_expect_manifest"
    /\ IF decoded_unl.decoded_manifest.some
       THEN /\ unl_decoded_manifest' = decoded_unl.decoded_manifest.v
            /\ stages' = Append(stages, "ManifestDecoded")
            /\ Goto("load_signin_key")
            /\ UNCHANGED out
       ELSE /\ Panic("Could not decode manifest")
            /\ out' = Append(out, [kind |-> "summary",
                                   validators |-> Len(decoded_blob.validators),
                                   sequence |-> decoded_blob.sequence,
                                   manifest |-> "cross", unl |-> "cross",
                                   expires |-> convert_to_human_time(0)])
            /\ UNCHANGED <<unl_decoded_manifest, stages>>
    /\ UNCHANGED <<cmd, arg, unl, decoded_unl, decoded_blob,
                   manifest_signin_key, manifest_verification, unl_verification,
                   vi, tamper, prev, cmpLocals, signLocals>>

\* let unl_decoded_manifest = decoded_unl.decoded_manifest.expect("Could not decode manifest");
LoadExpectManifest ==
    /\ cmd = "Load" /\ pc = "load_expect_manifest"
    /\ IF decoded_unl.decoded_manifest.some
       THEN /\ unl_decoded_manifest' = decoded_unl.decoded_manifest.v
            /\ stages' = Append(stages, "ManifestDecoded")
            /\ Goto("load_signin_key")
       ELSE /\ Panic("Could not decode manifest")
            /\ UNCHANGED <<unl_decoded_manifest, stages>>
    /\ UNCHANGED <<cmd, arg, out, unl, decoded_unl, decoded_blob,
                   manifest_signin_key, manifest_verification, unl_verification,
                   vi, tamper, prev, cmpLocals, signLocals>>

\* let manifest_signin_key = hex::encode(base58_decode(NodePublic, &signing_public_key)?).to_uppercase();
LoadSigninKey ==
    /\ cmd = "Load" /\ pc = "load_signin_key"
    /\ LET r == base58_decode(unl_decoded_manifest.signing_public_key)
       IN  IF r.ok
           THEN /\ manifest_signin_key' = hex_encode_upper(r.val)
                /\ Goto("load_manifest_verification")
           ELSE Fail(r.err) /\ UNCHANGED manifest_signin_key
    /\ UNCHANGED <<cmd, arg, out, unl, decoded_unl, decoded_blob, unl_decoded_manifest,
                   manifest_verification, unl_verification, vi, stages, tamper, prev, cmpLocals, signLocals>>

\* let manifest_verification = verify_signature(&key, &serialize_manifest_data(&m)?, &m.signature);
LoadManifestVerification ==
    /\ cmd = "Load" /\ pc = "load_manifest_verification"
    /\ LET r == serialize_manifest_data(unl_decoded_manifest)
       IN  IF r.ok
           THEN /\ manifest_verification' =
                      verify_signature(manifest_signin_key, r.val,
                                       unl_decoded_manifest.signature)
                /\ stages' = Append(stages, "ManifestVerified")
                /\ Goto("load_unl_verification")
           ELSE Fail(r.err) /\ UNCHANGED <<manifest_verification, stages>>
    /\ UNCHANGED <<cmd, arg, out, unl, decoded_unl, decoded_blob, unl_decoded_manifest,
                   manifest_signin_key, unl_verification, vi, tamper, prev, cmpLocals, signLocals>>

\* let unl_verification = verify_signature(&key, &BASE64_STANDARD.decode(&unl.blob)?, &unl.signature);
LoadUnlVerification ==
    /\ cmd = "Load" /\ pc = "load_unl_verification"
    /\ LET r == base64_decode(unl.blob)
       IN  IF r.ok
           THEN /\ unl_verification' =
                      verify_signature(manifest_signin_key, r.val, unl.signature)
                /\ stages' = Append(stages, "BlobVerified")
                /\ Goto("load_summary")
           ELSE Fail(r.err) /\ UNCHANGED <<unl_verification, stages>>
    /\ UNCHANGED <<cmd, arg, out, unl, decoded_unl, decoded_blob, unl_decoded_manifest,
                   manifest_signin_key, manifest_verification, vi, tamper, prev, cmpLocals, signLocals>>

\* println!("There are {} validators in this UNL. Sequence is: {} | Manifest: {} | UNL: {} | Expires: {}")
LoadSummary ==
    /\ cmd = "Load" /\ pc = "load_summary"
    /\ out' = Append(out,
          [kind |-> "summary",
           validators |-> Len(decoded_blob.validators),
           sequence |-> decoded_blob.sequence,
           manifest |-> get_tick_or_cross(manifest_verification),
           unl |-> get_tick_or_cross(unl_verification),
           expires |-> convert_to_human_time(convert_to_unix_time(decoded_blob.expiration))])
    /\ vi' = 1
    /\ Goto("load_validators")
    /\ UNCHANGED <<cmd, arg, unl, decoded_unl, decoded_blob, unl_decoded_manifest,
                   manifest_signin_key, manifest_verification, unl_verification,
                   stages, tamper, prev, cmpLocals, signLocals>>

\* the signing check is a copy of the master check: master key, master_signature
M_manifest_signing_validation(validator_manifest, sk, payload) ==
    verify_signature(hex_encode_upper(base58_decode(validator_manifest.master_public_key).val),
                     payload, validator_manifest.master_signature)

\* let manifest_master_validation = verify_signature(hex(master key), &payload, &master_signature);
manifest_master_validation(validator_manifest, mk, payload) ==
    verify_signature(hex_encode_upper(mk), payload, validator_manifest.master_signature)

\* let manifest_signing_validation = verify_signature(hex(signing key), &payload, &signature);
manifest_signing_validation(validator_manifest, sk, payload) ==
    verify_signature(hex_encode_upper(sk), payload, validator_manifest.signature)

\* One validator of the loop: the line it prints, Err where a `?` returns,
\* or nothing for a validator without a decoded manifest (the empty else).
ValidatorLine(validator) ==
    IF validator.decoded_manifest.some
    THEN LET validator_manifest == validator.decoded_manifest.v
             payload == serialize_manifest_data(validator_manifest)
             mk == base58_decode(validator_manifest.master_public_key)
             sk == base58_decode(validator_manifest.signing_public_key)
             b58 == hex_to_base58(validator.validation_public_key)
         IN  IF ~payload.ok THEN Err(payload.err)
             ELSE IF ~mk.ok THEN Err(mk.err)
             ELSE IF ~sk.ok THEN Err(sk.err)
             ELSE IF ~b58.ok THEN Err(b58.err)
             ELSE Ok(<<[kind |-> "validator",
                        key |-> validator.validation_public_key,
                        b58 |-> b58.val,
                        master |-> get_tick_or_cross(
                            manifest_master_validation(validator_manifest, mk.val, payload.val)),
                        signing |-> get_tick_or_cross(
                            manifest_signing_validation(validator_manifest, sk.val, payload.val)),
                        domain |-> unwrap_or_empty(validator_manifest.domain)]>>)
    ELSE Ok(<<>>)

\* for validator in decoded_blob.validators.iter_mut() { ... }, one iteration
LoadValidator ==
    /\ cmd = "Load" /\ pc = "load_validators"
    /\ vi <= Len(decoded_blob.validators)
    /\ LET r == ValidatorLine(decoded_blob.validators[vi])
       IN  IF r.ok
           THEN /\ out' = out \o r.val
                /\ vi' = vi + 1
                /\ Goto("load_validators")
           ELSE /\ Fail(r.err)
                /\ UNCHANGED <<out, vi>>
    /\ UNCHANGED <<cmd, arg, unl, decoded_unl, decoded_blob, unl_decoded_manifest,
                   manifest_signin_key, manifest_verification, unl_verification,
                   stages, tamper, prev, cmpLocals, signLocals>>

\* the loop is over: Ok(())
LoadDone ==
    /\ cmd = "Load" /\ pc = "load_validators"
    /\ vi > Len(decoded_blob.validators)
    /\ stages' = Append(stages, "ValidatorsVerified")
    /\ result' = "ok" /\ pc' = "done"
    /\ UNCHANGED <<cmd, arg, errMsg, out, loadLocals, tamper, prev, cmpLocals, signLocals>>

----------------------------------------------------------------------------
(* The documents a Load is run on *)

MfGood == Wire(1, "kM", "kA", "kA", "kM", "issuer.example")
MfBadSig == Wire(1, "kM", "kA", "forged", "kM", "issuer.example")
MfShortKey == Wire(1, "kM", "short", "short", "kM", "issuer.example")
TopWires == {MfGood, MfBadSig, MfShortKey, GarbageWire}

W1 == Wire(1, "m1", "s1", "s1", "m1", "v1.example")
W2 == Wire(2, "m2", "s2", "s2", "m2", "")
W3 == Wire(1, "m3", "s3", "s3", "m3", "v3.example")
WBadSig == Wire(1, "m4", "s4", "forged", "m4", "")
WShort == Wire(1, "short", "s5", "s5", "short", "")

ValidatorOf(w) == [validation_public_key |-> hex_encode_upper(w.mk), manifest |-> w]
VJunkKey == [validation_public_key |-> <<"junk", "zz">>, manifest |-> W3]
LoadValidators ==
    {ValidatorOf(W1), ValidatorOf(W2), ValidatorOf(WBadSig), ValidatorOf(WShort),
     ValidatorOf(GarbageWire), VJunkKey}

BlobOf(vs) == [sequence |-> 7, expiration |-> 800000000, validators |-> vs]
BlobTexts(VS) ==
    {base64_encode(GarbageBytes)} \cup
    {base64_encode(BlobJson(BlobOf(vs))) : vs \in SeqsUpTo(VS, MaxValidators)}

Doc(version, manifest, blob, signature, blobs_v2) ==
    [version |-> version, public_key |-> hex_encode_upper("kM"), manifest |-> manifest,
     blob |-> blob, signature |-> signature, blobs_v2 |-> blobs_v2]

\* single-blob documents: the version is absent (0) or 1
V1Docs ==
    {Doc(v, m, b, SigOf(k, b.bytes), <<>>) :
        v \in {0, 1}, m \in TopWires, b \in BlobTexts(LoadValidators),
        k \in {"kA", "forged"}}

Envelope(vs) ==
    [blob |-> base64_encode(BlobJson(BlobOf(vs))),
     signature |-> SigOf("kA", BlobJson(BlobOf(vs)))]

\* multi-blob documents: no inline blob, a list of signed envelopes
V2Docs ==
    {Doc(2, MfGood, UnlDefault.blob, UnlDefault.signature, es) :
        es \in {<<Envelope(<<>>)>>, <<Envelope(<<>>), Envelope(<<ValidatorOf(W1)>>)>>}}

\* documents of a version the tool does not know
V3Docs ==
    {Doc(3, MfGood, b, SigOf("kA", b.bytes), <<>>) :
        b \in {base64_encode(BlobJson(BlobOf(<<ValidatorOf(W1)>>)))}}

LoadDocs == V1Docs \cup V2Docs \cup V3Docs

Source(d) == [found |-> TRUE, doc |-> d]
NoSource == [found |-> FALSE, doc |-> UnlDefault]

----------------------------------------------------------------------------
(* A document changed in one signature field between two Loads *)

TamperSig(s) == <<"sig", IF s[2] = "forged" THEN "forged2" ELSE "forged", s[3]>>

BlobOfDoc(d) == base64_decode(d.blob).val.blob

Tampers(d) ==
    {[field |-> "signature", i |-> 0]} \cup
    (IF d.manifest.decodable THEN {[field |-> "manifest.signature", i |-> 0]} ELSE {}) \cup
    (IF base64_decode(d.blob).ok /\ base64_decode(d.blob).val.fmt = "json"
     THEN {[field |-> f, i |-> i] :
             f \in {"validator.signature", "validator.master_signature"},
             i \in {j \in DOMAIN BlobOfDoc(d).validators :
                       BlobOfDoc(d).validators[j].manifest.decodable}}
     ELSE {})

TamperValidator(d, t) ==
    LET b == BlobOfDoc(d)
        v == b.validators[t.i]
        w == IF t.field = "validator.signature"
             THEN [v.manifest EXCEPT !.sig = TamperSig(@)]
             ELSE [v.manifest EXCEPT !.msig = TamperSig(@)]
    IN  [d EXCEPT !.blob = base64_encode(BlobJson(
            [b EXCEPT !.validators[t.i] = [v EXCEPT !.manifest = w]]))]

TamperDoc(d, t) ==
    CASE t.field = "signature" -> [d EXCEPT !.signature = TamperSig(@)]
      [] t.field = "manifest.signature" -> [d EXCEPT !.manifest.sig = TamperSig(@)]
      [] OTHER -> TamperValidator(d, t)

\* The document at the source is changed in one signature field and the
\* command is run again on it.
Tamper ==
    /\ cmd = "Load" /\ pc = "done" /\ result = "ok" /\ ~tamper.some
    /\ \E t \in Tampers(arg.v.doc) :
          /\ tamper' = Some(t)
          /\ arg' = Some(Source(TamperDoc(arg.v.doc, t)))
    /\ prev' = [out |-> out, result |-> result]
    /\ pc' = "load_arg" /\ result' = "running" /\ errMsg' = "" /\ out' = <<>>
    /\ stages' = <<>>
    /\ ResetLoadLocals
    /\ UNCHANGED <<cmd, cmpLocals, signLocals>>

----------------------------------------------------------------------------
CmpLocalsInit ==
    /\ validators_manifests_1 = <<>> /\ validators_manifests_2 = <<>>
    /\ a_but_not_b = <<>> /\ b_but_not_a = <<>>

SignLocalsInit ==
    /\ sequence = 0 /\ expiration_in_days = 0 /\ secret_provider = Unset
    /\ keypair = Unset /\ sign_unl = Unset /\ manifests = <<>> /\ validators = <<>>
    /\ si = 1 /\ file = None /\ persist_calls = 0

CommonInit ==
    /\ result = "running" /\ errMsg = "" /\ out = <<>>
    /\ stages = <<>> /\ tamper = None /\ prev = Unset
    /\ LoadLocalsInit /\ CmpLocalsInit /\ SignLocalsInit

InitLoad ==
    /\ cmd = "Load" /\ pc = "load_arg"
    /\ arg \in {None, Some(NoSource)} \cup {Some(Source(d)) : d \in LoadDocs}
    /\ now = 1800000000 /\ disk_ok = TRUE
    /\ CommonInit

NextLoad ==
    \/ LoadArg \/ LoadGetUnl \/ LoadDecodeUnl \/ LoadExpectBlob \/ LoadExpectManifest
    \/ LoadSigninKey \/ LoadManifestVerification \/ LoadUnlVerification
    \/ LoadSummary \/ LoadValidator \/ LoadDone \/ Tamper

SpecLoad == InitLoad /\ [][NextLoad]_vars

----------------------------------------------------------------------------
(* Commands::Compare *)

\* Longest validator list of a compared document.
MaxCompared == 3

CompareValidators ==
    {ValidatorOf(W1), ValidatorOf(W2), ValidatorOf(W3), ValidatorOf(GarbageWire)}

CompareDocs ==
    {Doc(1, MfGood, b, SigOf("kA", b.bytes), <<>>) :
        b \in {base64_encode(GarbageBytes)} \cup
              {base64_encode(BlobJson(BlobOf(vs))) :
                  vs \in SeqsUpTo(CompareValidators, MaxCompared)}}

\* the orders a HashSet may be iterated in
Orderings(S) ==
    {f \in [1..Cardinality(S) -> S] : \A i, j \in DOMAIN f : f[i] = f[j] => i = j}

\* format!("{} {}", decoded_manifest.master_public_key, decoded_manifest.domain.unwrap_or(""))
DisplayOf(decoded_manifest) ==
    <<decoded_manifest.master_public_key, unwrap_or_empty(decoded_manifest.domain)>>

\* let Some(urls_or_files) = arg else { Err }; if urls_or_files.len() != 2 { Err }
CompareArgs ==
    /\ cmd = "Compare" /\ pc = "compare_args"
    /\ IF ~arg.some THEN Fail("No URL or file was passed")
       ELSE IF Len(arg.v) # 2 THEN Fail("Two URLs or files must be passed")
       ELSE Goto("compare_get_unls")
    /\ UNCHANGED <<cmd, arg, out, loadLocals, stages, tamper, prev, cmpLocals, signLocals>>

\* get_unl and decode_unl of both documents, then the manifest strings of
\* the validators of each: every `?` in order
CompareGetUnls ==
    /\ cmd = "Compare" /\ pc = "compare_get_unls"
    /\ LET unl_1 == get_unl(arg.v[1])
           decoded_unl_1 == decode_unl(unl_1.val)
           unl_2 == get_unl(arg.v[2])
           decoded_unl_2 == decode_unl(unl_2.val)
       IN  IF ~unl_1.ok THEN Fail(unl_1.err) /\ UNCHANGED cmpLocals
           ELSE IF ~decoded_unl_1.ok THEN Fail(decoded_unl_1.err) /\ UNCHANGED cmpLocals
           ELSE IF ~unl_2.ok THEN Fail(unl_2.err) /\ UNCHANGED cmpLocals
           ELSE IF ~decoded_unl_2.ok THEN Fail(decoded_unl_2.err) /\ UNCHANGED cmpLocals
           ELSE IF ~decoded_unl_1.val.decoded_blob.some
                THEN Fail("Could not decode blob 1") /\ UNCHANGED cmpLocals
           ELSE IF ~decoded_unl_2.val.decoded_blob.some
                THEN Fail("Could not decode blob 2") /\ UNCHANGED cmpLocals
           ELSE /\ validators_manifests_1' =
                      [i \in DOMAIN decoded_unl_1.val.decoded_blob.v.validators |->
                          decoded_unl_1.val.decoded_blob.v.validators[i].manifest]
                /\ validators_manifests_2' =
                      [i \in DOMAIN decoded_unl_2.val.decoded_blob.v.validators |->
                          decoded_unl_2.val.decoded_blob.v.validators[i].manifest]
                /\ UNCHANGED <<a_but_not_b, b_but_not_a>>
                /\ Goto("compare_difference")
    /\ UNCHANGED <<cmd, arg, out, loadLocals, stages, tamper, prev, signLocals>>

\* HashSet::difference
difference(a, b) == a \ b

\* the two loops over a.difference(&b) and b.difference(&a)
CompareDifference ==
    /\ cmd = "Compare" /\ pc = "compare_difference"
    /\ LET a == Range(validators_manifests_1)
           b == Range(validators_manifests_2)
       IN  IF \E v \in difference(a, b) \cup difference(b, a) : ~decode_manifest(v).ok
           THEN Fail("MalformedManifest") /\ UNCHANGED cmpLocals
           ELSE /\ \E oa \in Orderings(difference(a, b)) :
                      a_but_not_b' = [i \in DOMAIN oa |-> DisplayOf(decode_manifest(oa[i]).val)]
                /\ \E ob \in Orderings(difference(b, a)) :
                      b_but_not_a' = [i \in DOMAIN ob |-> DisplayOf(decode_manifest(ob[i]).val)]
                /\ UNCHANGED <<validators_manifests_1, validators_manifests_2>>
                /\ Goto("compare_report")
    /\ UNCHANGED <<cmd, arg, out, loadLocals, stages, tamper, prev, signLocals>>

Plus(texts) == [i \in DOMAIN texts |-> [kind |-> "plus", text |-> texts[i]]]
Minus(texts) == [i \in DOMAIN texts |-> [kind |-> "minus", text |-> texts[i]]]
Header(id, n) == [kind |-> "header", id |-> id, n |-> n]

\* under the second document's heading the two lists keep the signs of the first
M_CompareLines_SameSigns(len_1, len_2, ab, ba) ==
    IF ab = <<>> /\ ba = <<>>
    THEN <<[kind |-> "same", n |-> len_1]>>
    ELSE <<Header(1, len_1)>> \o Plus(ab) \o Minus(ba)
         \o <<Header(2, len_2)>> \o Plus(ab) \o Minus(ba)

\* only a_but_not_b.is_empty() is tested
M_CompareLines_OneSided(len_1, len_2, ab, ba) ==
    IF ab = <<>>
    THEN <<[kind |-> "same", n |-> len_1]>>
    ELSE <<Header(1, len_1)>> \o Plus(ab) \o Minus(ba)
         \o <<Header(2, len_2)>> \o Plus(ba) \o Minus(ab)

\* if a_but_not_b.is_empty() && b_but_not_a.is_empty() { "Both UNLs have the
\* same validators" } else { the first document's heading, a_but_not_b as +,
\* b_but_not_a as -, the second document's heading, b_but_not_a as +,
\* a_but_not_b as - }
CompareLines(len_1, len_2, ab, ba) ==
    IF ab = <<>> /\ ba = <<>>
    THEN <<[kind |-> "same", n |-> len_1]>>
    ELSE <<Header(1, len_1)>> \o Plus(ab) \o Minus(ba)
         \o <<Header(2, len_2)>> \o Plus(ba) \o Minus(ab)

CompareReport ==
    /\ cmd = "Compare" /\ pc = "compare_report"
    /\ out' = out \o CompareLines(Len(validators_manifests_1), Len(validators_manifests_2),
                                  a_but_not_b, b_but_not_a)
    /\ result' = "ok" /\ pc' = "done"
    /\ UNCHANGED <<cmd, arg, errMsg, loadLocals, stages, tamper, prev, cmpLocals, signLocals>>

InitCompare ==
    /\ cmd = "Compare" /\ pc = "compare_args"
    /\ arg \in {None, Some(<<Source(CHOOSE d \in CompareDocs : TRUE)>>)}
               \cup {Some(<<NoSource, Source(d)>>) : d \in CompareDocs}
               \cup {Some(<<Source(d), NoSource>>) : d \in CompareDocs}
               \cup {Some(<<Source(d1), Source(d2)>>) : d1, d2 \in CompareDocs}
    /\ now = 1800000000 /\ disk_ok = TRUE
    /\ CommonInit

NextCompare == CompareArgs \/ CompareGetUnls \/ CompareDifference \/ CompareReport

SpecCompare == InitCompare /\ [][NextCompare]_vars

----------------------------------------------------------------------------
(* Commands::Sign *)

\* Longest list of candidate validator manifests.
MaxCandidates == 2

\* str::parse::<u32>() and str::parse::<u16>() on the texts the model passes
NumberOf(text) ==
    CASE text = "7" -> 7 [] text = "30" -> 30 [] text = "70000" -> 70000 [] OTHER -> -1
parse_u32(text) ==
    IF NumberOf(text) >= 0 THEN Ok(NumberOf(text)) ELSE Err("ParseIntError")
parse_u16(text) ==
    IF NumberOf(text) >= 0 /\ NumberOf(text) <= 65535
    THEN Ok(NumberOf(text)) ELSE Err("ParseIntError")

\* SecretProvider::from_str
SecretProvider_from_str(text) ==
    IF text \in {"env"} THEN Ok(text) ELSE Err("Unknown secret provider")

KeyPair(k) == [public_key |-> hex_encode_upper(k), private_key |-> <<"priv", k>>]

\* secret::get_secret(provider, name) -> Result<Option<KeyPair>>
get_secret(provider, name) ==
    CASE name = "issuer" -> Ok(Some(KeyPair("kA")))
      [] name = "other" -> Ok(Some(KeyPair("kB")))
      [] name = "absent" -> Ok(None)
      [] OTHER -> Err("SecretProviderError")

\* util::get_manifests(source) -> Result<Vec<String>>
get_manifests(source) ==
    IF source.found THEN Ok(source.list) ELSE Err("SourceUnavailable")

ManifestSources ==
    {[found |-> FALSE, list |-> <<>>]} \cup
    {[found |-> TRUE, list |-> l] : l \in SeqsUpTo({W1, W2, GarbageWire}, MaxCandidates)}

SignParams ==
    {<<m, src, seq, days, provider, secret>> :
        m \in {MfGood, MfBadSig}, src \in ManifestSources, seq \in {"7", "x"},
        days \in {"30", "70000"}, provider \in {"env", "bogus"},
        secret \in {"issuer", "other", "absent", "unreachable"}}

\* serde_json::to_string(&Unl): the text of the output file
UnlJson(u) == [fmt |-> "json", unl |-> u]

\* a Validator as serde writes it into the blob
ValidatorJson(v) == [validation_public_key |-> v.validation_public_key, manifest |-> v.manifest]

\* let Some(params) = arg else { Err }; if params.len() != 6 { Err }
SignArg ==
    /\ cmd = "Sign" /\ pc = "sign_arg"
    /\ IF ~arg.some THEN Fail("No URL or file was passed")
       ELSE IF Len(arg.v) # 6 THEN Fail("Parameters missing")
       ELSE Goto("sign_parse_sequence")
    /\ UNCHANGED <<cmd, arg, out, loadLocals, stages, tamper, prev, cmpLocals, signLocals>>

\* let sequence = params[2].parse::<u32>()?;
SignParseSequence ==
    /\ cmd = "Sign" /\ pc = "sign_parse_sequence"
    /\ LET r == parse_u32(arg.v[3])
       IN  IF r.ok THEN sequence' = r.val /\ Goto("sign_parse_expiration")
           ELSE Fail(r.err) /\ UNCHANGED sequence
    /\ UNCHANGED <<cmd, arg, out, loadLocals, stages, tamper, prev, cmpLocals,
                   expiration_in_days, secret_provider, keypair, sign_unl, manifests,
                   validators, si, now, disk_ok, file, persist_calls>>

\* let expiration_in_days = params[3].parse::<u16>()?;
SignParseExpiration ==
    /\ cmd = "Sign" /\ pc = "sign_parse_expiration"
    /\ LET r == parse_u16(arg.v[4])
       IN  IF r.ok THEN expiration_in_days' = r.val /\ Goto("sign_secret_provider")
           ELSE Fail(r.err) /\ UNCHANGED expiration_in_days
    /\ UNCHANGED <<cmd, arg, out, loadLocals, stages, tamper, prev, cmpLocals,
                   sequence, secret_provider, keypair, sign_unl, manifests,
                   validators, si, now, disk_ok, file, persist_calls>>

\* let secret_provider = SecretProvider::from_str(&params[4].clone());
SignSecretProvider ==
    /\ cmd = "Sign" /\ pc = "sign_secret_provider"
    /\ secret_provider' = SecretProvider_from_str(arg.v[5])
    /\ Goto("sign_get_secret")
    /\ UNCHANGED <<cmd, arg, out, loadLocals, stages, tamper, prev, cmpLocals,
                   sequence, expiration_in_days, keypair, sign_unl, manifests,
                   validators, si, now, disk_ok, file, persist_calls>>

\* let secret = get_secret(secret_provider?, &secret_name).await?;
\* if secret.is_none() { Err }  let keypair = secret.unwrap();
SignGetSecret ==
    /\ cmd = "Sign" /\ pc = "sign_get_secret"
    /\ IF ~secret_provider.ok THEN Fail(secret_provider.err) /\ UNCHANGED keypair
       ELSE LET secret == get_secret(secret_provider.val, arg.v[6])
            IN  IF ~secret.ok THEN Fail(secret.err) /\ UNCHANGED keypair
                ELSE IF ~secret.val.some
                     THEN Fail("No secret was found") /\ UNCHANGED keypair
                ELSE keypair' = secret.val.v /\ Goto("sign_unl")
    /\ UNCHANGED <<cmd, arg, out, loadLocals, stages, tamper, prev, cmpLocals,
                   sequence, expiration_in_days, secret_provider, sign_unl, manifests,
                   validators, si, now, disk_ok, file, persist_calls>>

\* the document is written out as soon as it has its manifest and public key
M_SignUnl ==
    /\ cmd = "Sign" /\ pc = "sign_unl"
    /\ sign_unl' = [UnlDefault EXCEPT !.manifest = arg.v[1],
                                      !.public_key = keypair.public_key]
    /\ persist_calls' = persist_calls + 1
    /\ file' = IF disk_ok THEN Some(UnlJson(sign_unl')) ELSE file
    /\ LET r == get_manifests(arg.v[2])
       IN  IF r.ok
           THEN manifests' = r.val /\ validators' = <<>> /\ si' = 1
                /\ Goto("sign_validators")
           ELSE Fail(r.err) /\ UNCHANGED <<manifests, validators, si>>
    /\ UNCHANGED <<cmd, arg, out, loadLocals, stages, tamper, prev, cmpLocals,
                   sequence, expiration_in_days, secret_provider, keypair,
                   now, disk_ok>>

\* let mut unl = Unl::default(); unl.manifest = manifest;
\* unl.public_key = keypair.public_key.clone();
\* let manifests = get_manifests(&manifests)?; let mut validators = vec![];
SignUnl ==
    /\ cmd = "Sign" /\ pc = "sign_unl"
    /\ sign_unl' = [UnlDefault EXCEPT !.manifest = arg.v[1],
                                      !.public_key = keypair.public_key]
    /\ LET r == get_manifests(arg.v[2])
       IN  IF r.ok
           THEN manifests' = r.val /\ validators' = <<>> /\ si' = 1
                /\ Goto("sign_validators")
           ELSE Fail(r.err) /\ UNCHANGED <<manifests, validators, si>>
    /\ UNCHANGED <<cmd, arg, out, loadLocals, stages, tamper, prev, cmpLocals,
                   sequence, expiration_in_days, secret_provider, keypair,
                   now, disk_ok, file, persist_calls>>

\* Validator { validation_public_key: base58_to_hex(&master_public_key).to_uppercase(),
\*             manifest, decoded_manifest: None }
NewValidator(manifest, decoded_manifest) ==
    [validation_public_key |-> to_uppercase(base58_to_hex(decoded_manifest.master_public_key)),
     manifest |-> manifest,
     decoded_manifest |-> None]

\* a manifest that does not decode is passed over
M_SignValidator ==
    /\ cmd = "Sign" /\ pc = "sign_validators"
    /\ si <= Len(manifests)
    /\ LET r == decode_manifest(manifests[si])
       IN  /\ validators' = IF r.ok
                            THEN Append(validators, NewValidator(manifests[si], r.val))
                            ELSE validators
           /\ si' = si + 1
           /\ Goto("sign_validators")
    /\ UNCHANGED <<cmd, arg, out, loadLocals, stages, tamper, prev, cmpLocals,
                   sequence, expiration_in_days, secret_provider, keypair, sign_unl,
                   manifests, now, disk_ok, file, persist_calls>>

\* for manifest in manifests { let decoded_manifest = decode_manifest(&manifest)?;
\*                             validators.push(validator) }, one iteration
SignValidator ==
    /\ cmd = "Sign" /\ pc = "sign_validators"
    /\ si <= Len(manifests)
    /\ LET r == decode_manifest(manifests[si])
       IN  IF r.ok
           THEN /\ validators' = Append(validators, NewValidator(manifests[si], r.val))
                /\ si' = si + 1
                /\ Goto("sign_validators")
           ELSE Fail(r.err) /\ UNCHANGED <<validators, si>>
    /\ UNCHANGED <<cmd, arg, out, loadLocals, stages, tamper, prev, cmpLocals,
                   sequence, expiration_in_days, secret_provider, keypair, sign_unl,
                   manifests, now, disk_ok, file, persist_calls>>

\* let decoded_blob = DecodedBlob { sequence, expiration, validators };
\* let decoded_blob_payload = serde_json::to_string(&decoded_blob)?;
\* unl.signature = sign(&public_key, &private_key, &payload);
\* unl.blob = BASE64_STANDARD.encode(payload);
SignBlob ==
    /\ cmd = "Sign" /\ pc = "sign_validators"
    /\ si > Len(manifests)
    /\ LET blob == [sequence |-> sequence,
                    expiration |-> convert_to_ripple_time(
                        Some(now + expiration_in_days * SecondsPerDay)),
                    validators |-> [i \in DOMAIN validators |-> ValidatorJson(validators[i])]]
           decoded_blob_payload == BlobJson(blob)
           signature == sign(keypair.public_key, keypair.private_key, decoded_blob_payload)
       IN  sign_unl' = [sign_unl EXCEPT !.signature = signature,
                                        !.blob = base64_encode(decoded_blob_payload)]
    /\ Goto("sign_persist")
    /\ UNCHANGED <<cmd, arg, out, loadLocals, stages, tamper, prev, cmpLocals,
                   sequence, expiration_in_days, secret_provider, keypair,
                   manifests, validators, si, now, disk_ok, file, persist_calls>>

\* let file = generate_unl_file(&serde_json::to_string(&unl)?).is_ok();
\* println!("UNL file generated {}", get_tick_or_cross(file));
SignPersist ==
    /\ cmd = "Sign" /\ pc = "sign_persist"
    /\ persist_calls' = persist_calls + 1
    /\ file' = IF disk_ok THEN Some(UnlJson(sign_unl)) ELSE file
    /\ out' = Append(out, [kind |-> "generated", file |-> get_tick_or_cross(disk_ok)])
    /\ result' = "ok" /\ pc' = "done"
    /\ UNCHANGED <<cmd, arg, errMsg, loadLocals, stages, tamper, prev, cmpLocals,
                   sequence, expiration_in_days, secret_provider, keypair, sign_unl,
                   manifests, validators, si, now, disk_ok>>

\* The file Sign has written is given to Load.
LoadGenerated ==
    /\ cmd = "Sign" /\ pc = "done" /\ result = "ok" /\ file.some
    /\ cmd' = "Load" /\ arg' = Some(Source(file.v.unl))
    /\ pc' = "load_arg" /\ result' = "running" /\ errMsg' = "" /\ out' = <<>>
    /\ UNCHANGED <<loadLocals, stages, tamper, prev, cmpLocals, signLocals>>

InitSign ==
    /\ cmd = "Sign" /\ pc = "sign_arg"
    /\ arg \in {None} \cup {Some(p) : p \in SignParams}
               \cup {Some(SubSeq(p, 1, 5)) : p \in SignParams}
    /\ now \in {1700000000, 1800000000}
    /\ disk_ok \in BOOLEAN
    /\ CommonInit

NextSign ==
    \/ SignArg \/ SignParseSequence \/ SignParseExpiration \/ SignSecretProvider
    \/ SignGetSecret \/ SignUnl \/ SignValidator \/ SignBlob \/ SignPersist
    \/ LoadGenerated
    \/ LoadArg \/ LoadGetUnl \/ LoadDecodeUnl \/ LoadExpectBlob \/ LoadExpectManifest
    \/ LoadSigninKey \/ LoadManifestVerification \/ LoadUnlVerification
    \/ LoadSummary \/ LoadValidator \/ LoadDone

SpecSign == InitSign /\ [][NextSign]_vars

Init == InitLoad \/ InitCompare \/ InitSign
Next == NextLoad \/ NextCompare \/ NextSign
Spec == Init /\ [][Next]_vars

----------------------------------------------------------------------------
(* Properties of Load *)

IsPrefix(s, t) == Len(s) <= Len(t) /\ \A i \in 1..Len(s) : s[i] = t[i]
Count(o, k) == Cardinality({i \in DOMAIN o : o[i].kind = k})

LoadFinished == cmd = "Load" /\ pc = "done"
BothDecoded == "BlobDecoded" \in Range(stages) /\ "ManifestDecoded" \in Range(stages)

\* C2: once the top-level manifest and the blob have decoded, the manifest
\* check and the blob check never abort Load: the summary is printed with a
\* status for each of the two, whatever the key and signature fields hold.
C2_ChecksNeverAbort ==
    (LoadFinished /\ BothDecoded) =>
        /\ Len(out) >= 1 /\ out[1].kind = "summary"
        /\ out[1].manifest \in {"tick", "cross"}
        /\ out[1].unl \in {"tick", "cross"}

\* C3: a validator whose manifest cannot be decoded does not abort Load, and
\* it is reported: a Load that completes prints something for each of them.
C3_UndecodableValidatorReported ==
    (LoadFinished /\ result = "ok") =>
        \A i \in DOMAIN decoded_blob.validators :
            ~decoded_blob.validators[i].decoded_manifest.some =>
                \E l \in DOMAIN out :
                    /\ out[l].kind = "validator"
                    /\ out[l].key = decoded_blob.validators[i].validation_public_key

\* C9: a document of version absent or 1 is processed as one blob, a
\* document of version 2 as its list of envelopes (each decoded and its
\* signature checked), and any other version fails with UnsupportedVersion
\* before any summary.
C9_VersionDispatch ==
    (LoadFinished /\ arg.some /\ arg.v.found) =>
        LET d == arg.v.doc
        IN  /\ d.version \notin {0, 1, 2} =>
                    result = "err" /\ errMsg = "UnsupportedVersion" /\ out = <<>>
            /\ (d.version = 2 /\ d.manifest = MfGood) =>
                    result = "ok" /\ Count(out, "summary") = Len(d.blobs_v2)
            /\ (d.version \in {0, 1} /\ result = "ok") => Count(out, "summary") = 1

SpecOrder == <<"Loaded", "ManifestDecoded", "ManifestVerified",
               "BlobDecoded", "BlobVerified", "ValidatorsVerified">>
CodeOrder == <<"Loaded", "BlobDecoded", "ManifestDecoded",
               "ManifestVerified", "BlobVerified", "ValidatorsVerified">>

\* an undecodable top-level manifest or blob
StructuralFailure == LoadFinished /\ result = "panic"

\* C10 as stated: Load goes through Loaded, ManifestDecoded,
\* ManifestVerified, BlobDecoded, BlobVerified, ValidatorsVerified in that
\* order, and a structural failure ends it before any line is printed.
C10_StageOrder ==
    cmd = "Load" =>
        /\ IsPrefix(stages, SpecOrder)
        /\ StructuralFailure => out = <<>>

\* C10 amended: the order is Loaded, BlobDecoded, ManifestDecoded,
\* ManifestVerified, BlobVerified, ValidatorsVerified: the blob's decoding is
\* settled first, then the manifest's, both before any signature check; the
\* manifest signature is checked before the blob signature, lines are printed
\* only after both, and a structural failure ends Load before any line.
C10_StageOrderAmended ==
    cmd = "Load" =>
        /\ IsPrefix(stages, CodeOrder)
        /\ StructuralFailure => out = <<>>
        /\ out # <<>> => IsPrefix(SubSeq(CodeOrder, 1, 5), stages)
        /\ (StructuralFailure /\ errMsg = "Could not decode manifest") =>
               "BlobDecoded" \in Range(stages)

C10_Witness ==
    /\ LoadFinished /\ result = "ok" /\ stages = CodeOrder /\ Len(out) >= 2
    /\ ~tamper.some

----------------------------------------------------------------------------
(* One signature field changed between two Loads *)

AllTicks(o) ==
    /\ Len(o) >= 1 /\ o[1].manifest = "tick" /\ o[1].unl = "tick"
    /\ \A i \in 2..Len(o) : o[i].master = "tick" /\ o[i].signing = "tick"

\* the line of validator i: validators without a decoded manifest print none
LineOf(vs, i) == 1 + Cardinality({j \in 1..i : vs[j].decoded_manifest.some})

\* the second Load has ended, on a document whose first Load found every check valid
Retested == LoadFinished /\ tamper.some /\ prev.result = "ok" /\ AllTicks(prev.out)

\* C4 as stated: the changed field's check turns invalid and nothing else changes
C4_TamperIndependent ==
    Retested =>
        /\ result = "ok"
        /\ out = CASE tamper.v.field = "signature" -> [prev.out EXCEPT ![1].unl = "cross"]
                   [] tamper.v.field = "manifest.signature" ->
                        [prev.out EXCEPT ![1].manifest = "cross"]
                   [] tamper.v.field = "validator.signature" ->
                        [prev.out EXCEPT
                            ![LineOf(decoded_blob.validators, tamper.v.i)].signing = "cross"]
                   [] OTHER ->
                        [prev.out EXCEPT
                            ![LineOf(decoded_blob.validators, tamper.v.i)].master = "cross"]

\* C4 amended: changing the document's signature or the top-level manifest's
\* signature turns exactly that check invalid; changing a validator
\* manifest's signature or master_signature turns that validator's check
\* invalid and, the manifest being part of the signed blob, the blob
\* signature check too; Load never aborts and every other check is unchanged.
C4_TamperAmended ==
    Retested =>
        /\ result = "ok"
        /\ out = CASE tamper.v.field = "signature" -> [prev.out EXCEPT ![1].unl = "cross"]
                   [] tamper.v.field = "manifest.signature" ->
                        [prev.out EXCEPT ![1].manifest = "cross"]
                   [] tamper.v.field = "validator.signature" ->
                        [prev.out EXCEPT
                            ![1].unl = "cross",
                            ![LineOf(decoded_blob.validators, tamper.v.i)].signing = "cross"]
                   [] OTHER ->
                        [prev.out EXCEPT
                            ![1].unl = "cross",
                            ![LineOf(decoded_blob.validators, tamper.v.i)].master = "cross"]

C4_Witness ==
    /\ Retested /\ tamper.v.field = "validator.signature" /\ tamper.v.i = 1
    /\ Len(out) = 3 /\ out[2].signing = "cross" /\ out[3].signing = "tick"

----------------------------------------------------------------------------
(* Properties of Compare *)

\* the validator set of a compared document, keyed by the manifest string
ManifestSet(source) ==
    {BlobOfDoc(source.doc).validators[i].manifest :
        i \in DOMAIN BlobOfDoc(source.doc).validators}

Decodes(source) ==
    /\ source.found
    /\ base64_decode(source.doc.blob).ok
    /\ base64_decode(source.doc.blob).val.fmt = "json"

CompareFinished == cmd = "Compare" /\ pc = "done" /\ arg.some /\ Len(arg.v) = 2
Compared == CompareFinished /\ Decodes(arg.v[1]) /\ Decodes(arg.v[2])

Shown(w) == DisplayOf(decode_manifest(w).val)
SecondHeading == CHOOSE i \in DOMAIN out : out[i].kind = "header" /\ out[i].id = 2
Lines(from, kind) == {i \in DOMAIN out : i > from /\ out[i].kind = kind}

\* C5: going from document A to document B, the lines under B's heading show
\* added = B - A with + and removed = A - B with -, one line per manifest
\* string; for A = {v1, v2, v3} and B = A without v2, v2 is the one line shown
\* as removed and no line is shown as added.
C5_AddedRemoved ==
    (Compared /\ result = "ok" /\ out[1].kind = "header") =>
        LET A == ManifestSet(arg.v[1])
            B == ManifestSet(arg.v[2])
        IN  /\ {out[i].text : i \in Lines(SecondHeading, "plus")} = {Shown(w) : w \in B \ A}
            /\ {out[i].text : i \in Lines(SecondHeading, "minus")} = {Shown(w) : w \in A \ B}
            /\ Cardinality(Lines(SecondHeading, "plus")) = Cardinality(B \ A)
            /\ Cardinality(Lines(SecondHeading, "minus")) = Cardinality(A \ B)
            /\ (A = {W1, W2, W3} /\ B = {W1, W3}) =>
                   /\ Lines(SecondHeading, "plus") = {}
                   /\ {out[i].text : i \in Lines(SecondHeading, "minus")} = {Shown(W2)}

C5_Witness ==
    /\ Compared /\ result = "ok"
    /\ ManifestSet(arg.v[1]) = {W1, W2, W3} /\ ManifestSet(arg.v[2]) = {W1, W3}
    /\ Len(out) = 4 /\ out[4] = [kind |-> "minus", text |-> Shown(W2)]

\* C6: Compare reports the "same validators" outcome, and no diff lists,
\* exactly when the two documents have the same set of manifest strings; a
\* document compared with itself gives it whether or not its validators'
\* manifests decode.
C6_EqualOutcome ==
    Compared =>
        /\ (result = "ok" /\ Len(out) = 1 /\ out[1].kind = "same")
               <=> ManifestSet(arg.v[1]) = ManifestSet(arg.v[2])
        /\ arg.v[1] = arg.v[2] =>
               /\ result = "ok" /\ out = <<[kind |-> "same", n |-> Len(validators_manifests_1)]>>
               /\ a_but_not_b = <<>> /\ b_but_not_a = <<>>

C6_Witness ==
    /\ Compared /\ arg.v[1] = arg.v[2]
    /\ GarbageWire \in ManifestSet(arg.v[1])
    /\ result = "ok" /\ out[1].kind = "same"

----------------------------------------------------------------------------
(* Properties of Sign *)

SignFinished == cmd = "Sign" /\ pc = "done"

\* the validator list of the blob of the document Sign has assembled
SignedValidators == BlobOfDoc(sign_unl).validators

\* C1: the document Sign produces, given to Load, is reported valid for the
\* blob signature and for the issuer manifest, for any key pair of the secret
\* provider and any issuer manifest whose own signature is valid.
C1_RoundTrip ==
    (LoadFinished /\ file.some /\ arg = Some(Source(file.v.unl))
        /\ sign_unl.manifest = MfGood) =>
        /\ result = "ok"
        /\ out[1].kind = "summary" /\ out[1].manifest = "tick" /\ out[1].unl = "tick"

\* C7: the blob's validator list drops no member: a Sign that succeeds has
\* one validator per candidate manifest, in input order, with the manifest's
\* string and the upper-case hex of its master public key; a candidate that
\* does not decode makes Sign fail.
C7_NoSilentDrop ==
    (SignFinished /\ arg.some /\ Len(arg.v) = 6) =>
        LET candidates == arg.v[2].list
        IN  /\ (\E i \in DOMAIN candidates : ~candidates[i].decodable) =>
                   result = "err" /\ persist_calls = 0
            /\ result = "ok" =>
                   /\ arg.v[2].found
                   /\ SignedValidators =
                          [i \in DOMAIN candidates |->
                              [validation_public_key |-> <<"HEX", candidates[i].mk>>,
                               manifest |-> candidates[i]]]

C7_Witness ==
    /\ SignFinished /\ result = "ok" /\ arg.v[2].list = <<W2, W1>>
    /\ Len(SignedValidators) = 2 /\ SignedValidators[1].manifest = W2

\* C8: the output document is persisted at most once and only as the last
\* step of a Sign whose parameters were accepted, whose secret was found,
\* whose candidate manifests all decoded and whose blob is signed; a Sign
\* that fails has persisted nothing.
C8_PersistLast ==
    /\ persist_calls \in {0, 1}
    /\ file.some => persist_calls = 1
    /\ (SignFinished /\ result = "err") => persist_calls = 0 /\ ~file.some
    /\ (cmd = "Sign" /\ pc # "done") => persist_calls = 0 /\ ~file.some
    /\ (cmd = "Sign" /\ persist_calls = 1) =>
           /\ pc = "done" /\ result = "ok"
           /\ arg.some /\ Len(arg.v) = 6
           /\ parse_u32(arg.v[3]) = Ok(sequence)
           /\ parse_u16(arg.v[4]) = Ok(expiration_in_days)
           /\ secret_provider = Ok(arg.v[5])
           /\ get_secret(secret_provider.val, arg.v[6]) = Ok(Some(keypair))
           /\ get_manifests(arg.v[2]) = Ok(manifests)
           /\ Len(validators) = Len(manifests)
           /\ \A i \in DOMAIN manifests : decode_manifest(manifests[i]).ok
           /\ sign_unl.signature =
                  sign(keypair.public_key, keypair.private_key, base64_decode(sign_unl.blob).val)
           /\ file.some => file.v = UnlJson(sign_unl)

C8_Witness ==
    /\ SignFinished /\ result = "ok" /\ persist_calls = 1 /\ file.some
    /\ Len(validators) = 2

====
